---- MODULE Spec2Model ----
(***************************************************************************)
(* A model of slide-rs/atom (src/src/lib.rs): Atom<P>, one AtomicPtr that  *)
(* holds NULL or the raw address of one owning pointer P (Box or Arc).     *)
(*                                                                         *)
(* Heap objects are identified by their address (Addr); NULL is the null   *)
(* pointer.  An owning handle P is a unit of ownership of one address:     *)
(* held[a] counts the handles the calling threads own between them (P is   *)
(* Send, so which thread holds a handle does not matter to the Atom), the  *)
(* slot owns the address stored in inner, and a link node owns the address *)
(* in its next field.                                                      *)
(* rc[a] is the number of handles the object itself accounts for (the Arc  *)
(* strong count; 1 for a live Box), torn[a] counts how often the object's  *)
(* destructor ran.  into_raw gives a handle up without touching rc,        *)
(* from_raw makes a handle without touching rc, clone adds one to both.    *)
(*                                                                         *)
(* Every operation but replace_and_set_next is one atomic instruction      *)
(* surrounded by thread-local conversions and is one action;               *)
(* replace_and_set_next is three (start, load, compare_exchange).          *)
(*                                                                         *)
(* Spec lets the callers use every operation, any number of times, and     *)
(* keeps only the last call's result (last).  The specifications that      *)
(* start from InitLogged also keep the whole history of calls (log) and    *)
(* stop after MaxCalls calls; each of them lets the callers use one family *)
(* of operations.                                                          *)
(***************************************************************************)
EXTENDS Naturals, FiniteSets, Sequences

\* Bounds of the model.
NThreads == 3
NObj == 3
MaxCalls == 3
MaxRc == 3
NValues == 2
MaxTries == 2

\* ptr::null_mut()
NULL == 0

Threads == 1..NThreads
Addr == 1..NObj
Ptr == {NULL} \cup Addr
Kinds == {"Box", "Arc"}

VARIABLES
  kind,      \* the owner kind P of this Atom<P>
  life,      \* "live" until the Atom is dropped, then "dropped"
  inner,     \* Atom.inner: the AtomicPtr
  allocd,    \* addresses handed out by the allocator so far
  rc,        \* per address: handles accounted for by the object
  torn,      \* per address: number of times the destructor ran
  next,      \* per address: the node's next field (Option<P> as a pointer)
  held,      \* per address: owning handles in the callers' hands
  pc,        \* per thread: "idle", or the place in replace_and_set_next
  rawv,      \* per thread: `raw` of the running replace_and_set_next
  pcur,      \* per thread: `pcurrent` of the running replace_and_set_next
  tries,     \* per thread: failed compare_exchange of its running or last
             \* call, kept with the history and counted up to MaxTries
  last,      \* the last call on the Atom that returned, and its result
  track,     \* whether this run keeps its history
  log,       \* the calls that returned, in the order of their atomic steps
  init0      \* what the constructor stored (NULL for Atom::empty())

heap == <<allocd, rc, torn, next>>
loc == <<pc, rawv, pcur, tries>>
hist == <<last, log>>
vars == <<kind, life, inner, allocd, rc, torn, next, held, pc, rawv, pcur,
          tries, last, track, log, init0>>

----------------------------------------------------------------------------
\* Ownership bookkeeping

NoCall == [op |-> "none", new |-> NULL, cur |-> NULL, ok |-> FALSE,
           ret |-> NULL, raw |-> NULL, first |-> FALSE]

Zero == [a \in Addr |-> 0]

\* One more handle to address p in bag b (none for NULL).
Plus(b, p) == IF p = NULL THEN b ELSE [b EXCEPT ![p] = @ + 1]

\* P::into_raw(self): the caller gives up its handle to v; the result is the
\* address.  The object's count is not touched.
IntoRaw(h, v) == IF v = NULL THEN h ELSE [h EXCEPT ![v] = @ - 1]

\* P::from_raw(ptr): the caller gets a handle to ptr.  The object's count is
\* not touched.
FromRaw(h, p) == IF p = NULL THEN h ELSE [h EXCEPT ![p] = @ + 1]

\* Atom::inner_into_raw: None becomes the null pointer.
inner_into_raw(h, val) == IntoRaw(h, val)

\* Atom::inner_from_raw: the null pointer becomes None.
inner_from_raw(h, p) == FromRaw(h, p)

\* Mutant of inner_as_ptr: the address of the borrowed P itself (`val as
\* *const _`), which is never the address the P points to.
inner_as_ptr_of_ref(val) == IF val = NULL THEN NULL ELSE NObj + val

\* Atom::inner_as_ptr: the address behind a borrowed &P, None is null.
inner_as_ptr(val) == val

\* The value stored at an address (what == on P compares): two allocations
\* can hold equal values.
ValueOf(a) == a % NValues

\* Dropping one owning handle to address a, on heap state st = [rc, torn,
\* next]: the count goes down, and at the last handle the destructor runs
\* and drops the node's next field in turn.
RECURSIVE DropP(_, _, _)
DropP(a, st, fuel) ==
  IF a = NULL \/ fuel = 0 THEN st
  ELSE IF st.rc[a] > 1 THEN [st EXCEPT !.rc[a] = @ - 1]
  ELSE DropP(st.next[a],
             [st EXCEPT !.rc[a] = 0, !.torn[a] = @ + 1, !.next[a] = NULL],
             fuel - 1)

HeapSt == [rc |-> rc, torn |-> torn, next |-> next]

DropTo(a) == DropP(a, HeapSt, NObj + 1)

SetHeap(st) == /\ rc' = st.rc
               /\ torn' = st.torn
               /\ next' = st.next

Running == {t \in Threads : pc[t] # "idle"}

\* Thread t may start a call on the Atom.
CanCall(t) == /\ life = "live"
              /\ pc[t] = "idle"
              /\ track => Len(log) + Cardinality(Running) < MaxCalls

\* The P a caller can pass by value, or borrow as &P.
Owned == {a \in Addr : held[a] > 0}

\* The call `op` of thread t returns.  new, cur: the arguments; ok: whether
\* it stored; ret: the P handed to the caller; raw: the raw identity handed
\* to the caller; before: the slot at the atomic instruction; first: the
\* bool returned.
Returns(t, op, new, cur, ok, ret, raw, before, first) ==
  /\ last' = [op |-> op, new |-> new, cur |-> cur, ok |-> ok, ret |-> ret,
              raw |-> raw, first |-> first]
  /\ log' = IF track
            THEN Append(log, [t |-> t, op |-> op, new |-> new, cur |-> cur,
                              ok |-> ok, ret |-> ret, raw |-> raw,
                              first |-> first, before |-> before])
            ELSE log

----------------------------------------------------------------------------
\* The callers' side: making, cloning and dropping owning pointers.

\* Box::new / Arc::new: a fresh allocation with one handle.
Alloc ==
  /\ allocd # Addr
  /\ LET a == CHOOSE x \in Addr \ allocd : \A y \in Addr \ allocd : x <= y
     IN /\ allocd' = allocd \cup {a}
        /\ rc' = [rc EXCEPT ![a] = 1]
        /\ held' = [held EXCEPT ![a] = 1]
  /\ UNCHANGED <<kind, life, inner, torn, next, loc, hist, track, init0>>

\* Arc::clone through a shared borrow of some live handle.
Clone(a) ==
  /\ kind = "Arc"
  /\ a \in Owned
  /\ rc[a] < MaxRc
  /\ rc' = [rc EXCEPT ![a] = @ + 1]
  /\ held' = [held EXCEPT ![a] = @ + 1]
  /\ UNCHANGED <<kind, life, inner, allocd, torn, next, loc, hist, track,
                 init0>>

\* drop(p) by the thread that holds it.
DropHandle(a) ==
  /\ a \in Owned
  /\ held' = [held EXCEPT ![a] = @ - 1]
  /\ SetHeap(DropTo(a))
  /\ UNCHANGED <<kind, life, inner, allocd, loc, hist, track, init0>>

\* link.next = Some(w): the node v takes over the handle to w; what its next
\* field held before is dropped by the assignment.
SetNext(v, w) ==
  /\ kind = "Box"
  /\ v \in Owned /\ w \in Owned /\ v # w
  /\ held' = [held EXCEPT ![w] = @ - 1]
  /\ LET st == DropTo(next[v])
     IN SetHeap([st EXCEPT !.next[v] = w])
  /\ UNCHANGED <<kind, life, inner, allocd, loc, hist, track, init0>>

----------------------------------------------------------------------------
\* Atom<P>

\* Atom::empty() and Atom::new(value): the Atom right after construction.
\* With new, the value is the first allocation; an Arc may have one more
\* handle, kept by the callers.
Built ==
  /\ kind \in Kinds
  /\ life = "live"
  /\ inner \in {NULL, 1}
  /\ init0 = inner
  /\ allocd = IF inner = NULL THEN {} ELSE {inner}
  /\ held \in {Plus(Zero, p) : p \in IF kind = "Arc" THEN {NULL, inner}
                                                     ELSE {NULL}}
  /\ rc = [a \in Addr |-> IF a = inner THEN 1 + held[a] ELSE 0]
  /\ torn = Zero
  /\ next = [a \in Addr |-> NULL]
  /\ pc = [t \in Threads |-> "idle"]
  /\ rawv = [t \in Threads |-> NULL]
  /\ pcur = [t \in Threads |-> NULL]
  /\ tries = [t \in Threads |-> 0]
  /\ last = NoCall
  /\ log = <<>>

Init == Built /\ track = FALSE

InitLogged == Built /\ track = TRUE

\* Mutant of Swap: the value is stored with compare_exchange(null, new), so
\* it is only installed into an empty slot.
SwapIfEmpty(t, v) ==
  /\ CanCall(t)
  /\ v \in Owned
  /\ LET h1 == IntoRaw(held, v)
         new == v
         old == inner
     IN /\ inner' = IF old = NULL THEN new ELSE old
        /\ held' = IF old = NULL THEN h1 ELSE FromRaw(h1, new)
        /\ Returns(t, "swap", v, NULL, TRUE,
                   IF old = NULL THEN NULL ELSE new, NULL, old, FALSE)
  /\ UNCHANGED <<kind, life, heap, loc, track, init0>>

\* Mutant of Swap: the value is stored by a load and compare_exchange loop;
\* the call enters the loop and returns from it in a later step, if at all.
SwapStartsLoop(t, v) ==
  /\ CanCall(t)
  /\ v \in Owned
  /\ held' = IntoRaw(held, v)
  /\ rawv' = [rawv EXCEPT ![t] = v]
  /\ pc' = [pc EXCEPT ![t] = "load"]
  /\ UNCHANGED <<kind, life, inner, heap, pcur, tries, hist, track, init0>>

\* Atom::swap
Swap(t, v) ==
  /\ CanCall(t)
  /\ v \in Owned
  /\ LET h1 == IntoRaw(held, v)
         new == v
         old == inner
     IN /\ inner' = new
        /\ held' = inner_from_raw(h1, old)
        /\ Returns(t, "swap", v, NULL, TRUE, old, NULL, old, FALSE)
  /\ UNCHANGED <<kind, life, heap, loc, track, init0>>

\* Mutant of Take: the slot is read with load, not emptied with swap.
TakeLoads(t) ==
  /\ CanCall(t)
  /\ LET old == inner
     IN /\ inner' = inner
        /\ held' = inner_from_raw(held, old)
        /\ Returns(t, "take", NULL, NULL, TRUE, old, NULL, old, FALSE)
  /\ UNCHANGED <<kind, life, heap, loc, track, init0>>

\* Mutant of Take: only the head is withdrawn; what its next field refers to
\* is left in the slot, and the field is not cleared.
TakePopsHead(t) ==
  /\ CanCall(t)
  /\ LET old == inner
     IN /\ inner' = IF old = NULL THEN NULL ELSE next[old]
        /\ held' = inner_from_raw(held, old)
        /\ Returns(t, "take", NULL, NULL, TRUE, old, NULL, old, FALSE)
  /\ UNCHANGED <<kind, life, heap, loc, track, init0>>

\* Atom::take
Take(t) ==
  /\ CanCall(t)
  /\ LET old == inner
     IN /\ inner' = NULL
        /\ held' = inner_from_raw(held, old)
        /\ Returns(t, "take", NULL, NULL, TRUE, old, NULL, old, FALSE)
  /\ UNCHANGED <<kind, life, heap, loc, track, init0>>

\* Mutant of CasOk: the comparison is by the values behind the pointers (==
\* on P), not by address.
CasOkByValue(pcurrent) ==
  \/ pcurrent = NULL /\ inner = NULL
  \/ pcurrent # NULL /\ inner # NULL /\ ValueOf(pcurrent) = ValueOf(inner)

\* Mutant of CasOk: the exchange stores whatever the slot holds (a swap).
CasOkAlways(pcurrent) == TRUE

\* AtomicPtr::compare_exchange(pcurrent, _): whether it stores.
CasOk(pcurrent) == inner = pcurrent

\* Mutant of SetIfNone: on failure the value is dropped, not handed back.
SetIfNoneDropsValue(t, v) ==
  /\ CanCall(t)
  /\ v \in Owned
  /\ LET h1 == IntoRaw(held, v)
         new == v
     IN IF CasOk(NULL)
        THEN /\ inner' = new
             /\ held' = h1
             /\ UNCHANGED <<rc, torn, next>>
             /\ Returns(t, "set_if_none", v, NULL, TRUE, NULL, NULL,
                        inner, FALSE)
        ELSE /\ inner' = inner
             /\ held' = h1
             /\ SetHeap(DropTo(new))
             /\ Returns(t, "set_if_none", v, NULL, FALSE, NULL, NULL,
                        inner, FALSE)
  /\ UNCHANGED <<kind, life, allocd, loc, track, init0>>

\* Atom::set_if_none
SetIfNone(t, v) ==
  /\ CanCall(t)
  /\ v \in Owned
  /\ LET h1 == IntoRaw(held, v)
         new == v
     IN IF CasOk(NULL)
        THEN /\ inner' = new
             /\ held' = h1
             /\ Returns(t, "set_if_none", v, NULL, TRUE, NULL, NULL,
                        inner, FALSE)
        ELSE /\ inner' = inner
             /\ held' = FromRaw(h1, new)
             /\ Returns(t, "set_if_none", v, NULL, FALSE, new, NULL,
                        inner, FALSE)
  /\ UNCHANGED <<kind, life, heap, loc, track, init0>>

\* The arguments a caller can give to the compare-exchange family: current
\* is None or a borrow of a live P, new is None or a P; a P that is borrowed
\* cannot be moved, so passing the same address as both takes two handles.
CasArgs(cur, new) ==
  /\ cur \in {NULL} \cup Owned
  /\ new \in {NULL} \cup Owned
  /\ (cur # NULL /\ cur = new) => held[cur] >= 2

\* Mutant of CompareAndSwap: on failure `new` is dropped and None is handed
\* back.
CompareAndSwapDropsNew(t, cur, new) ==
  /\ CanCall(t)
  /\ CasArgs(cur, new)
  /\ LET pcurrent == inner_as_ptr(cur)
         h1 == inner_into_raw(held, new)
         pnew == new
         pprev == inner
     IN IF CasOk(pcurrent)
        THEN /\ inner' = pnew
             /\ held' = inner_from_raw(h1, pprev)
             /\ UNCHANGED <<rc, torn, next>>
             /\ Returns(t, "compare_and_swap", new, cur, TRUE, pprev, NULL,
                        pprev, FALSE)
        ELSE /\ inner' = inner
             /\ held' = h1
             /\ SetHeap(DropTo(pnew))
             /\ Returns(t, "compare_and_swap", new, cur, FALSE, NULL, pprev,
                        pprev, FALSE)
  /\ UNCHANGED <<kind, life, allocd, loc, track, init0>>

\* Atom::compare_and_swap
CompareAndSwap(t, cur, new) ==
  /\ CanCall(t)
  /\ CasArgs(cur, new)
  /\ LET pcurrent == inner_as_ptr(cur)
         h1 == inner_into_raw(held, new)
         pnew == new
         pprev == inner
     IN IF CasOk(pcurrent)
        THEN /\ inner' = pnew
             /\ held' = inner_from_raw(h1, pprev)
             /\ Returns(t, "compare_and_swap", new, cur, TRUE, pprev, NULL,
                        pprev, FALSE)
        ELSE /\ inner' = inner
             /\ held' = inner_from_raw(h1, pnew)
             /\ Returns(t, "compare_and_swap", new, cur, FALSE, pnew, pprev,
                        pprev, FALSE)
  /\ UNCHANGED <<kind, life, heap, loc, track, init0>>

\* Mutant of CompareExchange: on failure the resident is handed out as a P
\* (inner_from_raw of the pointer found) together with `new`.
CompareExchangeHandsResident(t, cur, new) ==
  /\ CanCall(t)
  /\ CasArgs(cur, new)
  /\ LET h1 == inner_into_raw(held, new)
         pnew == new
         pprev == inner
     IN IF CasOk(inner_as_ptr(cur))
        THEN /\ inner' = pnew
             /\ held' = inner_from_raw(h1, pprev)
             /\ Returns(t, "compare_exchange", new, cur, TRUE, pprev, NULL,
                        pprev, FALSE)
        ELSE /\ inner' = inner
             /\ held' = inner_from_raw(inner_from_raw(h1, pnew), pprev)
             /\ Returns(t, "compare_exchange", new, cur, FALSE, pnew, pprev,
                        pprev, FALSE)
  /\ UNCHANGED <<kind, life, heap, loc, track, init0>>

\* Atom::compare_exchange
CompareExchange(t, cur, new) ==
  /\ CanCall(t)
  /\ CasArgs(cur, new)
  /\ LET h1 == inner_into_raw(held, new)
         pnew == new
         pprev == inner
     IN IF CasOk(inner_as_ptr(cur))
        THEN /\ inner' = pnew
             /\ held' = inner_from_raw(h1, pprev)
             /\ Returns(t, "compare_exchange", new, cur, TRUE, pprev, NULL,
                        pprev, FALSE)
        ELSE /\ inner' = inner
             /\ held' = inner_from_raw(h1, pnew)
             /\ Returns(t, "compare_exchange", new, cur, FALSE, pnew, pprev,
                        pprev, FALSE)
  /\ UNCHANGED <<kind, life, heap, loc, track, init0>>

\* Mutant of WeakCasOk: the weak exchange stores without comparing.
WeakCasOkNoCompare(pcurrent, spurious) == ~spurious

\* AtomicPtr::compare_exchange_weak(pcurrent, _): whether it stores; it may
\* fail although the comparison succeeds (spurious).
WeakCasOk(pcurrent, spurious) == inner = pcurrent /\ ~spurious

\* Atom::compare_exchange_weak
CompareExchangeWeak(t, cur, new) ==
  /\ CanCall(t)
  /\ CasArgs(cur, new)
  /\ \E spurious \in BOOLEAN :
       LET h1 == inner_into_raw(held, new)
           pnew == new
           pprev == inner
       IN IF WeakCasOk(inner_as_ptr(cur), spurious)
          THEN /\ inner' = pnew
               /\ held' = inner_from_raw(h1, pprev)
               /\ Returns(t, "compare_exchange_weak", new, cur, TRUE, pprev,
                          NULL, pprev, FALSE)
          ELSE /\ inner' = inner
               /\ held' = inner_from_raw(h1, pnew)
               /\ Returns(t, "compare_exchange_weak", new, cur, FALSE, pnew,
                          pprev, pprev, FALSE)
  /\ UNCHANGED <<kind, life, heap, loc, track, init0>>

\* Mutant of RsnStart: no drop_in_place; what value.next held is left to be
\* overwritten by the loop.
RsnStartLeaks(t, v) ==
  /\ CanCall(t)
  /\ kind = "Box"
  /\ v \in Owned
  /\ held' = IntoRaw(held, v)
  /\ rawv' = [rawv EXCEPT ![t] = v]
  /\ pc' = [pc EXCEPT ![t] = "load"]
  /\ tries' = [tries EXCEPT ![t] = 0]
  /\ UNCHANGED <<kind, life, inner, heap, pcur, hist, track, init0>>

\* Atom::replace_and_set_next, up to the loop: `raw = value.into_raw()` and
\* `drop_in_place(next)`, which drops what value.next held.
RsnStart(t, v) ==
  /\ CanCall(t)
  /\ kind = "Box"
  /\ v \in Owned
  /\ held' = IntoRaw(held, v)
  /\ rawv' = [rawv EXCEPT ![t] = v]
  /\ LET st == DropTo(next[v])
     IN SetHeap([st EXCEPT !.next[v] = NULL])
  /\ pc' = [pc EXCEPT ![t] = "load"]
  /\ tries' = [tries EXCEPT ![t] = 0]
  /\ UNCHANGED <<kind, life, inner, allocd, pcur, hist, track, init0>>

\* Mutant of RsnLoad: the resident is loaded but not written into the node.
RsnLoadNoWrite(t) ==
  /\ pc[t] = "load"
  /\ pcur' = [pcur EXCEPT ![t] = inner]
  /\ pc' = [pc EXCEPT ![t] = "cas"]
  /\ UNCHANGED <<kind, life, inner, heap, held, rawv, tries, hist, track,
                 init0>>

\* Mutant of RsnLoad: the resident is stored with `*next = current`, which
\* drops what the next field held before.
RsnLoadAssigns(t) ==
  /\ pc[t] = "load"
  /\ pcur' = [pcur EXCEPT ![t] = inner]
  /\ LET st == DropTo(next[rawv[t]])
     IN SetHeap([st EXCEPT !.next[rawv[t]] = inner])
  /\ pc' = [pc EXCEPT ![t] = "cas"]
  /\ UNCHANGED <<kind, life, inner, allocd, held, rawv, tries, hist, track,
                 init0>>

\* Atom::replace_and_set_next, the loop's load and `ptr::write(next,
\* current)`: the next field is overwritten without being dropped.
RsnLoad(t) ==
  /\ pc[t] = "load"
  /\ pcur' = [pcur EXCEPT ![t] = inner]
  /\ next' = [next EXCEPT ![rawv[t]] = inner]
  /\ pc' = [pc EXCEPT ![t] = "cas"]
  /\ UNCHANGED <<kind, life, inner, allocd, rc, torn, held, rawv, tries,
                 hist, track, init0>>

\* One more failed compare_exchange in a history that is kept.
Failed(n) == IF track /\ n < MaxTries THEN n + 1 ELSE n

\* Mutant of RsnResult: the test of the replaced pointer is inverted.
RsnResultNonNull(replaced_ptr) == replaced_ptr # NULL

\* Mutant of RsnResult: the new pointer is tested, not the replaced one.
RsnResultOfRaw(replaced_ptr) == FALSE

\* The bool replace_and_set_next returns from the pointer it replaced.
RsnResult(replaced_ptr) == replaced_ptr = NULL

\* Mutant of RsnCas: raw is stored with swap, whatever the slot holds, and
\* the bool is taken from the pointer that was loaded.
RsnCasBlind(t) ==
  /\ pc[t] = "cas"
  /\ inner' = rawv[t]
  /\ pc' = [pc EXCEPT ![t] = "idle"]
  /\ rawv' = [rawv EXCEPT ![t] = NULL]
  /\ pcur' = [pcur EXCEPT ![t] = NULL]
  /\ Returns(t, "replace_and_set_next", rawv[t], NULL, TRUE, NULL,
             NULL, inner, RsnResult(pcur[t]))
  /\ UNCHANGED <<kind, life, heap, held, tries, track, init0>>

\* Mutant of RsnCas: the loop is left on Err as well, with false.
RsnCasGivesUp(t) ==
  /\ pc[t] = "cas"
  /\ inner' = IF CasOk(pcur[t]) THEN rawv[t] ELSE inner
  /\ pc' = [pc EXCEPT ![t] = "idle"]
  /\ rawv' = [rawv EXCEPT ![t] = NULL]
  /\ pcur' = [pcur EXCEPT ![t] = NULL]
  /\ Returns(t, "replace_and_set_next", rawv[t], NULL, CasOk(pcur[t]), NULL,
             NULL, inner, CasOk(pcur[t]) /\ RsnResult(inner))
  /\ UNCHANGED <<kind, life, heap, held, tries, track, init0>>

\* Mutant of RsnCas: on Err the exchange is tried again with the pointer
\* that was loaded before, without loading the slot again.
RsnCasStale(t) ==
  /\ pc[t] = "cas"
  /\ IF CasOk(pcur[t])
     THEN /\ inner' = rawv[t]
          /\ pc' = [pc EXCEPT ![t] = "idle"]
          /\ rawv' = [rawv EXCEPT ![t] = NULL]
          /\ pcur' = [pcur EXCEPT ![t] = NULL]
          /\ Returns(t, "replace_and_set_next", rawv[t], NULL, TRUE, NULL,
                     NULL, inner, RsnResult(inner))
          /\ UNCHANGED tries
     ELSE /\ tries' = [tries EXCEPT ![t] = Failed(@)]
          /\ UNCHANGED <<inner, pc, rawv, pcur, hist>>
  /\ UNCHANGED <<kind, life, heap, held, track, init0>>

\* Atom::replace_and_set_next, the loop's compare_exchange: return on Ok,
\* go round again on Err.
RsnCas(t) ==
  /\ pc[t] = "cas"
  /\ IF CasOk(pcur[t])
     THEN /\ inner' = rawv[t]
          /\ pc' = [pc EXCEPT ![t] = "idle"]
          /\ rawv' = [rawv EXCEPT ![t] = NULL]
          /\ pcur' = [pcur EXCEPT ![t] = NULL]
          /\ Returns(t, "replace_and_set_next", rawv[t], NULL, TRUE, NULL,
                     NULL, inner, RsnResult(inner))
          /\ UNCHANGED tries
     ELSE /\ pc' = [pc EXCEPT ![t] = "load"]
          /\ tries' = [tries EXCEPT ![t] = Failed(@)]
          /\ UNCHANGED <<inner, rawv, pcur, hist>>
  /\ UNCHANGED <<kind, life, heap, held, track, init0>>

\* Mutant of DropAtom: the destructor does nothing with the slot.
DropAtomForgets ==
  /\ life = "live"
  /\ Running = {}
  /\ life' = "dropped"
  /\ UNCHANGED <<kind, inner, heap, held, loc, hist, track, init0>>

\* impl Drop for Atom: self.take(), and the Option<P> it returns is dropped.
\* Dropping takes the Atom by value: no call is running on it.
DropAtom ==
  /\ life = "live"
  /\ Running = {}
  /\ life' = "dropped"
  /\ LET old == inner
     IN /\ inner' = NULL
        /\ SetHeap(DropTo(old))
  /\ UNCHANGED <<kind, allocd, held, loc, hist, track, init0>>

\* What the callers do apart from calling the Atom.
Callers ==
  \/ Alloc
  \/ \E a \in Addr : Clone(a)
  \/ \E a \in Addr : DropHandle(a)
  \/ \E v \in Addr, w \in Addr : SetNext(v, w)
  \/ DropAtom

Next ==
  \/ Callers
  \/ \E t \in Threads, v \in Addr : Swap(t, v)
  \/ \E t \in Threads : Take(t)
  \/ \E t \in Threads, v \in Addr : SetIfNone(t, v)
  \/ \E t \in Threads, cur \in Ptr, new \in Ptr : CompareAndSwap(t, cur, new)
  \/ \E t \in Threads, cur \in Ptr, new \in Ptr : CompareExchange(t, cur, new)
  \/ \E t \in Threads, cur \in Ptr, new \in Ptr :
       CompareExchangeWeak(t, cur, new)
  \/ \E t \in Threads, v \in Addr : RsnStart(t, v)
  \/ \E t \in Threads : RsnLoad(t)
  \/ \E t \in Threads : RsnCas(t)

Spec == Init /\ [][Next]_vars

\* The callers use set_if_none only.
NextSetIfNone ==
  \/ Callers
  \/ \E t \in Threads, v \in Addr : SetIfNone(t, v)

SpecSetIfNone == InitLogged /\ [][NextSetIfNone]_vars

\* The callers use swap and take only.
NextSwapTake ==
  \/ Callers
  \/ \E t \in Threads, v \in Addr : Swap(t, v)
  \/ \E t \in Threads : Take(t)

SpecSwapTake == InitLogged /\ [][NextSwapTake]_vars

\* The callers use replace_and_set_next only.
NextPush ==
  \/ Callers
  \/ \E t \in Threads, v \in Addr : RsnStart(t, v)
  \/ \E t \in Threads : RsnLoad(t)
  \/ \E t \in Threads : RsnCas(t)

SpecPush == InitLogged /\ [][NextPush]_vars

\* The callers use replace_and_set_next and take only.
NextLifo ==
  \/ NextPush
  \/ \E t \in Threads : Take(t)

SpecLifo == InitLogged /\ [][NextLifo]_vars

\* The same under fair scheduling: a thread inside the loop of
\* replace_and_set_next keeps running.  The callers make MaxCalls calls at
\* most, so the operations of the other threads are finitely many.
SpecLifoFair ==
  /\ InitLogged /\ [][NextLifo]_vars
  /\ \A t \in Threads : WF_vars(RsnLoad(t)) /\ WF_vars(RsnCas(t))

\* tests/atom.rs, lifo: draining a chain, `while let Some(v) = chain {
\* found.push(v); chain = v.next }`, from address a with the next fields nx.
\* A drain that has not ended after `fuel` nodes is cut with NULL.
RECURSIVE Chain(_, _, _)
Chain(a, nx, fuel) ==
  IF a = NULL THEN <<>>
  ELSE IF fuel = 0 THEN <<NULL>>
  ELSE <<a>> \o Chain(nx[a], nx, fuel - 1)

----------------------------------------------------------------------------
\* AtomSetOnce<P>: a view of an Atom that shared references can only fill.
\* The model's Atom is the view's inner Atom; dropping the view drops it.

\* mem::forget(v): the handle is given up and no destructor runs.
Forget(h, v) == IF v = NULL THEN h ELSE [h EXCEPT ![v] = @ - 1]

\* Mutant of OnceSetIfNone: the view stores with swap.
OnceSetIfNoneSwaps(t, v) == Swap(t, v)

\* AtomSetOnce::set_if_none
OnceSetIfNone(t, v) == SetIfNone(t, v)

\* AtomSetOnce::get: the resident is loaded, turned into a P, borrowed from
\* and forgotten.  The caller gets a reference to the resident (raw), no P.
Get(t) ==
  /\ CanCall(t)
  /\ LET ptr == inner
         h1 == inner_from_raw(held, ptr)
     IN /\ held' = Forget(h1, ptr)
        /\ Returns(t, "get", NULL, NULL, FALSE, NULL, ptr, ptr, FALSE)
  /\ UNCHANGED <<kind, life, inner, heap, loc, track, init0>>

\* Mutant of Dup: the P made from the resident is handed out itself, neither
\* cloned nor forgotten.
DupNoClone(t) ==
  /\ CanCall(t)
  /\ kind = "Arc"
  /\ LET ptr == inner
         h1 == inner_from_raw(held, ptr)
     IN /\ ptr # NULL => rc[ptr] < MaxRc
        /\ held' = h1
        /\ Returns(t, "dup", NULL, NULL, FALSE, ptr, NULL, ptr, FALSE)
  /\ UNCHANGED <<kind, life, inner, heap, loc, track, init0>>

\* AtomSetOnce::dup: the resident is loaded, turned into a P, cloned and
\* forgotten; the caller gets the clone.  On an Arc the clone is one more
\* handle to the same allocation.
Dup(t) ==
  /\ CanCall(t)
  /\ kind = "Arc"
  /\ LET ptr == inner
         h1 == inner_from_raw(held, ptr)
     IN /\ ptr # NULL => rc[ptr] < MaxRc
        /\ rc' = Plus(rc, ptr)
        /\ held' = Forget(Plus(h1, ptr), ptr)
        /\ Returns(t, "dup", NULL, NULL, FALSE, ptr, NULL, ptr, FALSE)
  /\ UNCHANGED <<kind, life, inner, allocd, torn, next, loc, track, init0>>

\* AtomSetOnce::is_none, which is Atom::is_none
IsNone(t) ==
  /\ CanCall(t)
  /\ Returns(t, "is_none", NULL, NULL, FALSE, NULL, NULL, inner,
             inner = NULL)
  /\ UNCHANGED <<kind, life, inner, heap, held, loc, track, init0>>

\* What shared references to the view allow, and the callers' own pointers.
NextSetOnce ==
  \/ Alloc
  \/ \E a \in Addr : Clone(a)
  \/ \E a \in Addr : DropHandle(a)
  \/ DropAtom
  \/ \E t \in Threads, v \in Addr : OnceSetIfNone(t, v)
  \/ \E t \in Threads : Get(t)
  \/ \E t \in Threads : Dup(t)
  \/ \E t \in Threads : IsNone(t)

SpecSetOnce == InitLogged /\ [][NextSetOnce]_vars

----------------------------------------------------------------------------
\* tests/atom.rs, cas_test_helper: cur_val, next_val and other_val are three
\* Arc<String>, the Atom is built from a clone of cur_val, and each thread
\* calls `cas` once with Some(next_val.clone()) as new; the thread cas_thread
\* passes &cur_val as current and every other thread &other_val.

CurVal == 1
NextVal == 2
OtherVal == 3

\* let cas_thread = num_threads / 2, for threads numbered from 1
cas_thread == (NThreads \div 2) + 1

CasOps == {"compare_and_swap", "compare_exchange", "compare_exchange_weak"}

InitCasTest ==
  /\ kind = "Arc"
  /\ life = "live"
  /\ inner = CurVal
  /\ init0 = CurVal
  /\ allocd = {CurVal, NextVal, OtherVal}
  /\ held = [a \in Addr |-> IF a \in allocd THEN 1 ELSE 0]
  /\ rc = [a \in Addr |-> IF a = CurVal THEN 2 ELSE held[a]]
  /\ torn = Zero
  /\ next = [a \in Addr |-> NULL]
  /\ pc = [t \in Threads |-> "idle"]
  /\ rawv = [t \in Threads |-> NULL]
  /\ pcur = [t \in Threads |-> NULL]
  /\ tries = [t \in Threads |-> 0]
  /\ last = NoCall
  /\ log = <<>>
  /\ track = TRUE

\* The body of thread t: one call of the function under test.
CasTestThread(t, op) ==
  /\ \A i \in 1..Len(log) : log[i].t # t /\ log[i].op = op
  /\ LET cas_val == IF t = cas_thread THEN CurVal ELSE OtherVal
     IN \/ op = "compare_and_swap" /\ CompareAndSwap(t, cas_val, NextVal)
        \/ op = "compare_exchange" /\ CompareExchange(t, cas_val, NextVal)
        \/ op = "compare_exchange_weak"
             /\ CompareExchangeWeak(t, cas_val, NextVal)

\* The threads of cas_test_helper, and the clones and drops around them.
NextCasTest ==
  \/ \E a \in Addr : Clone(a)
  \/ \E a \in Addr : DropHandle(a)
  \/ \E t \in Threads, op \in CasOps : CasTestThread(t, op)

SpecCasTest == InitCasTest /\ [][NextCasTest]_vars

----------------------------------------------------------------------------
\* The claims.  A claim about every call of an operation is an action
\* property over the steps of that operation; the step records its
\* arguments in last, so only the recorded arguments need to be tried.

LogIdx == 1..Len(log)

\* The calls in the log come from pairwise different threads.
OncePerThread == \A i \in LogIdx, j \in LogIdx : i # j => log[i].t # log[j].t

\* The runs C1 is about: only set_if_none was called, once per thread, with
\* pairwise distinct values, on an Atom built empty and still alive.
C1_Contenders ==
  /\ track /\ life = "live" /\ init0 = NULL /\ log # <<>>
  /\ \A i \in LogIdx : log[i].op = "set_if_none"
  /\ OncePerThread
  /\ \A i \in LogIdx, j \in LogIdx : i # j => log[i].new # log[j].new

\* C1: when N threads call set_if_none once each, with pairwise distinct
\* values, on an initially empty Atom and nothing else is called, exactly one
\* call returns None, every other call returns the caller's own value, and
\* the slot holds the value of the call that returned None.
C1_ExactlyOneWinner ==
  C1_Contenders =>
    /\ Cardinality({i \in LogIdx : log[i].ret = NULL}) = 1
    /\ \A i \in LogIdx : log[i].ret # NULL => log[i].ret = log[i].new
    /\ \E i \in LogIdx : log[i].ret = NULL /\ inner = log[i].new

\* Every thread has made its call, one won and the others lost.
C1_Witness ==
  /\ C1_Contenders
  /\ Len(log) = NThreads
  /\ Cardinality({i \in LogIdx : log[i].ret = log[i].new}) = NThreads - 1

\* C2: a call set_if_none(v) on a non-empty slot returns Some(v), the very
\* handle passed in, tears nothing down and leaves the resident as it was.
C2_SetIfNoneFailure ==
  [][\A t \in Threads :
       LET v == last'.new
       IN (inner # NULL /\ v # NULL /\ SetIfNone(t, v)) =>
          /\ last'.ret = v /\ ~last'.ok
          /\ inner' = inner
          /\ held' = held
          /\ rc' = rc /\ torn' = torn /\ next' = next]_vars

\* A set_if_none has just failed on a non-empty slot and the caller holds
\* its value again.
C2_Witness ==
  /\ last.op = "set_if_none" /\ ~last.ok
  /\ inner # NULL /\ last.ret = last.new /\ last.new # inner
  /\ held[last.new] > 0 /\ torn[last.new] = 0

\* The owners an address has apart from the slot: the callers' handles and
\* the next fields of nodes that have not been torn down.
OwnersLeft(a) ==
  held[a] + Cardinality({b \in allocd : torn[b] = 0 /\ next[b] = a})

\* This step drops exactly one owning handle to address a: the count goes
\* down by one, and the destructor runs once if it was the last handle.
DropsOneHandle(a) ==
  IF rc[a] > 1 THEN rc'[a] = rc[a] - 1 /\ torn'[a] = torn[a]
               ELSE rc'[a] = 0 /\ torn'[a] = torn[a] + 1

\* C3: destroying an Atom that holds a value drops that value exactly once
\* and destroying an empty Atom tears nothing down; no value is ever torn
\* down twice, and once the Atom is destroyed every value that has no owner
\* left (it was in the slot, or was withdrawn and dropped by the caller) has
\* been torn down exactly once.
C3_DropExactlyOnce ==
  [][/\ (DropAtom /\ inner # NULL) => DropsOneHandle(inner)
     /\ (DropAtom /\ inner = NULL) => (rc' = rc /\ torn' = torn)
     /\ \A a \in Addr : torn'[a] <= 1
     /\ life' = "dropped" =>
          \A a \in allocd' : (OwnersLeft(a)' = 0) <=> (torn'[a] = 1)]_vars

\* The Atom was destroyed while it held a value, after another value had
\* been withdrawn by take and dropped by the caller; each was torn down
\* once.
C3_Witness ==
  /\ life = "dropped" /\ kind = "Box"
  /\ last.op = "take" /\ last.ret # NULL /\ torn[last.ret] = 1
  /\ last.new = NULL
  /\ \E b \in allocd : b # last.ret /\ torn[b] = 1
  /\ \A a \in Addr : held[a] = 0

\* What the slot holds after the i-th logged call, in a run of swap and
\* take calls: what that call stored (take stores NULL).
ResidentAfter(i) == IF i = 0 THEN init0 ELSE log[i].new

\* Number of logged calls that returned address a / that passed a in.
NReturned(a) == Cardinality({i \in LogIdx : log[i].ret = a})
NPassed(a) == Cardinality({i \in LogIdx : log[i].new = a})
One(b) == IF b THEN 1 ELSE 0

C4_OnlySwaps ==
  /\ track /\ life = "live"
  /\ \A i \in LogIdx : log[i].op = "swap"

\* C4: swap(v) installs v and returns the value resident immediately
\* before: in a run of swap calls, the values returned together with the
\* final resident are the initial resident together with the values passed
\* in, each as often as it was passed.
C4_SwapConserves ==
  C4_OnlySwaps =>
    /\ \A i \in LogIdx : log[i].ok /\ log[i].ret = ResidentAfter(i - 1)
    /\ inner = ResidentAfter(Len(log))
    /\ \A a \in Addr :
         NReturned(a) + One(inner = a) = One(init0 = a) + NPassed(a)

\* Three swaps on an Atom built with a value; the first returned that value
\* and a later one returned what an earlier one had installed.
C4_Witness ==
  /\ C4_OnlySwaps /\ Len(log) = MaxCalls /\ init0 # NULL
  /\ log[1].ret = init0
  /\ log[2].ret = log[1].new /\ log[2].t # log[1].t

\* C5: take() empties the slot and returns the value resident immediately
\* before, as a swap that stores NULL would: on an empty slot it returns
\* None, and of several takes with no install between them on a slot that
\* held a value, exactly the first returns it and the others return None.
C5_TakeIsSwapOfNone ==
  (track /\ life = "live") =>
    /\ \A i \in LogIdx :
         log[i].op = "take" =>
           /\ log[i].ret = ResidentAfter(i - 1)
           /\ i = Len(log) => inner = NULL
           /\ i < Len(log) => log[i + 1].ret = NULL
    /\ \A i \in LogIdx, j \in LogIdx :
         (i <= j /\ \A k \in i..j : log[k].op = "take") =>
            {k \in i..j : log[k].ret # NULL}
              = IF ResidentAfter(i - 1) = NULL THEN {} ELSE {i}

\* Three threads took from a slot that held one value: the first got it,
\* the other two got None.
C5_Witness ==
  /\ track /\ life = "live" /\ Len(log) = NThreads /\ OncePerThread
  /\ \A i \in LogIdx : log[i].op = "take"
  /\ init0 # NULL /\ log[1].ret = init0
  /\ \A i \in 2..Len(log) : log[i].ret = NULL

StrongCas(t, cur, new) ==
  CompareAndSwap(t, cur, new) \/ CompareExchange(t, cur, new)

AnyCas(t, cur, new) ==
  StrongCas(t, cur, new) \/ CompareExchangeWeak(t, cur, new)

\* C6: compare_and_swap and compare_exchange install `new` if and only if
\* the address of `current` is the address in the slot at the call (None
\* matching the empty slot only), whatever the values behind the addresses;
\* on success the displaced value handed back has the address of `current`.
C6_CasByIdentity ==
  [][\A t \in Threads :
       LET cur == last'.cur
           new == last'.new
       IN StrongCas(t, cur, new) =>
          /\ last'.ok <=> (inner = cur)
          /\ last'.ok => (inner' = new /\ last'.ret = cur)
          /\ ~last'.ok => inner' = inner]_vars

\* A compare-exchange failed although `current` and the resident hold equal
\* values, because they are different allocations.
C6_Witness ==
  /\ last.op \in {"compare_and_swap", "compare_exchange"} /\ ~last.ok
  /\ last.cur # NULL /\ last.raw # NULL /\ last.cur # last.raw
  /\ ValueOf(last.cur) = ValueOf(last.raw)
  /\ inner = last.raw

\* C7: when a call of compare_and_swap, compare_exchange or
\* compare_exchange_weak fails (spuriously or not), the slot is unchanged,
\* the caller gets the `new` it passed back (None for None) and nothing is
\* torn down, and the raw identity returned is the address that was in the
\* slot at the failed comparison.
C7_CasFailure ==
  [][\A t \in Threads :
       LET cur == last'.cur
           new == last'.new
       IN (~last'.ok /\ AnyCas(t, cur, new)) =>
          /\ inner' = inner
          /\ last'.ret = new
          /\ last'.raw = inner
          /\ held' = held
          /\ rc' = rc /\ torn' = torn /\ next' = next]_vars

\* A compare_exchange_weak failed spuriously (current is the resident) and
\* the caller holds the value it passed as new.
C7_Witness ==
  /\ last.op = "compare_exchange_weak" /\ ~last.ok
  /\ last.raw = last.cur /\ last.cur # NULL /\ inner = last.cur
  /\ last.new # NULL /\ last.ret = last.new
  /\ held[last.new] > 0 /\ torn[last.new] = 0

\* C10: replace_and_set_next(v) returns true if and only if its successful
\* compare_exchange replaced an empty slot, so that the slot went from empty
\* to holding v in that step; it returns false when v was installed on top
\* of a resident, which is then v's next.
C10_FirstIffEmpty ==
  [][\A t \in Threads :
       (pc[t] = "cas" /\ pc'[t] = "idle") =>
          /\ last'.op = "replace_and_set_next" /\ last'.new = rawv[t]
          /\ inner' = rawv[t]
          /\ last'.first <=> (inner = NULL)
          /\ next'[rawv[t]] = inner]_vars

\* A push returned false after it had to go round its loop again: it was
\* installed on top of a resident that is not the one it loaded first.
C10_Witness ==
  /\ last.op = "replace_and_set_next" /\ ~last.first
  /\ inner = last.new /\ next[inner] # NULL
  /\ \E t \in Threads : pc[t] = "cas" /\ pcur[t] = NULL

\* The logged calls that stored.
Winners == {i \in LogIdx : log[i].ok}

\* The thread cas_thread has made its call.
CasThreadCalled == \E i \in LogIdx : log[i].t = cas_thread

\* C8: when each of N threads calls compare_and_swap (or each calls
\* compare_exchange) once on an Atom holding C, all with new = X, one thread
\* with current = C and the others with current = Y, which is never
\* resident, then exactly one call succeeds and displaces C (not X), every
\* raw identity a failing call reports is C or X and never Y, and after all
\* calls the slot holds X.
C8_OneCasWins ==
  (log # <<>> /\ log[1].op \in {"compare_and_swap", "compare_exchange"}) =>
    /\ \A i \in Winners :
         log[i].t = cas_thread /\ log[i].ret = CurVal /\ log[i].ret # NextVal
    /\ \A i \in LogIdx \ Winners :
         log[i].raw \in {CurVal, NextVal} /\ log[i].raw # OtherVal
    /\ CasThreadCalled => (Cardinality(Winners) = 1 /\ inner = NextVal)
    /\ ~CasThreadCalled => (Winners = {} /\ inner = CurVal)
    /\ Len(log) = NThreads => (Cardinality(Winners) = 1 /\ inner = NextVal)

\* All N threads have called; one failed before the winner and saw C, one
\* failed after it and saw X.
C8_Witness ==
  /\ Len(log) = NThreads /\ OncePerThread
  /\ log[1].op = "compare_exchange"
  /\ Cardinality(Winners) = 1
  /\ \E i \in LogIdx : ~log[i].ok /\ log[i].raw = CurVal
  /\ \E i \in LogIdx : ~log[i].ok /\ log[i].raw = NextVal
  /\ inner = NextVal

OnlyPushes ==
  /\ track /\ life = "live" /\ init0 = NULL
  /\ \A i \in LogIdx : log[i].op = "replace_and_set_next"

\* C11: when replace_and_set_next calls, sequential or concurrent, run on an
\* initially empty Atom and nothing withdraws from the slot, exactly one of
\* them returns true, the one whose compare_exchange came first, and every
\* other call returns false.
C11_OneFirst ==
  (OnlyPushes /\ log # <<>>) =>
    /\ log[1].first
    /\ \A i \in LogIdx : i > 1 => ~log[i].first
    /\ Cardinality({i \in LogIdx : log[i].first}) = 1

\* Three threads pushed one node each: the first to exchange returned true
\* and the other two returned false.
C11_Witness ==
  /\ OnlyPushes /\ Len(log) = NThreads /\ OncePerThread
  /\ log[1].first /\ ~log[2].first /\ ~log[3].first
  /\ inner = log[3].new

\* The nodes pushed by the logged calls lg, in the order of their exchanges.
PushedSeq(lg) == [i \in 1..Len(lg) |-> lg[i].new]

Reverse(sq) == [i \in 1..Len(sq) |-> sq[Len(sq) + 1 - i]]

\* C12: after pushes v1, ..., vn on an initially empty Atom (calls made one
\* after another exchange in the order they are made), the chain in the slot
\* is vn, ..., v1 and then ends, each node's next field is the resident its
\* push replaced, and a take then returns vn at the head of that chain and
\* leaves the slot empty.
C12_LifoOrder ==
  [][/\ OnlyPushes' =>
          /\ Chain(inner', next', NObj) = Reverse(PushedSeq(log'))
          /\ \A i \in 1..Len(log') : next'[log'[i].new] = log'[i].before
     /\ \A t \in Threads :
          (OnlyPushes /\ log # <<>> /\ Take(t)) =>
             /\ last'.ret = log[Len(log)].new
             /\ Chain(last'.ret, next', NObj) = Reverse(PushedSeq(log))
             /\ inner' = NULL]_vars

\* One thread pushed two nodes one after the other and then took the chain:
\* it got the second node, whose next is the first, whose next is None.
C12_Witness ==
  /\ track /\ init0 = NULL /\ Len(log) = 3
  /\ \A i \in LogIdx : log[i].t = log[1].t
  /\ log[1].op = "replace_and_set_next" /\ log[2].op = "replace_and_set_next"
  /\ log[3].op = "take" /\ log[3].ret = log[2].new
  /\ held[log[2].new] = 1
  /\ next[log[2].new] = log[1].new /\ next[log[1].new] = NULL
  /\ inner = NULL

\* The elements of a sequence.
Range(sq) == {sq[i] : i \in 1..Len(sq)}

\* C13: when threads push nodes onto one shared, initially empty Atom, under
\* every interleaving of their load and compare_exchange steps, the chain in
\* the slot after all pushes have returned ends, and it holds exactly the
\* pushed nodes, each once.
C13_ChainComplete ==
  (OnlyPushes /\ Running = {}) =>
    LET c == Chain(inner, next, NObj)
    IN /\ NULL \notin Range(c)
       /\ Range(c) = {log[i].new : i \in LogIdx}
       /\ Len(c) = Len(log)
       /\ \A i \in 1..Len(c), j \in 1..Len(c) : i # j => c[i] # c[j]

\* Three threads pushed one node each and all have returned: the chain in
\* the slot has the three nodes.
C13_Witness ==
  /\ OnlyPushes /\ Running = {}
  /\ Len(log) = NThreads /\ OncePerThread
  /\ Len(Chain(inner, next, NObj)) = NThreads
  /\ Range(Chain(inner, next, NObj)) = Addr

\* The view holds a resident after the first i logged calls.
Populated(i) ==
  \/ init0 # NULL
  \/ \E k \in 1..i : log[k].op = "set_if_none" /\ log[k].ok

\* The view has been populated.
Filled == Populated(Len(log))

\* The resident of the first populate.
FirstId ==
  IF init0 # NULL THEN init0
  ELSE LET k == CHOOSE k \in LogIdx :
                  /\ log[k].op = "set_if_none" /\ log[k].ok
                  /\ ~Populated(k - 1)
       IN log[k].new

\* C14: once a set_if_none on an AtomSetOnce has succeeded, or the view was
\* made with new, every later get returns the same resident, which is alive,
\* whatever set_if_none, get, dup and is_none calls are made between; every
\* later set_if_none fails and hands its value back; get returns None only
\* before the first populate.
C14_SetOnceStable ==
  track =>
    /\ \A j \in LogIdx :
         /\ log[j].op = "get" =>
              log[j].raw = IF Populated(j - 1) THEN FirstId ELSE NULL
         /\ log[j].op = "dup" =>
              log[j].ret = IF Populated(j - 1) THEN FirstId ELSE NULL
         /\ log[j].op = "is_none" => (log[j].first <=> ~Populated(j - 1))
         /\ log[j].op = "set_if_none" =>
              /\ log[j].ok <=> ~Populated(j - 1)
              /\ ~log[j].ok => log[j].ret = log[j].new
    /\ (life = "live" /\ Populated(Len(log))) =>
         (inner = FirstId /\ torn[FirstId] = 0)
    /\ (life = "live" /\ ~Populated(Len(log))) => inner = NULL

\* Three threads on an empty view: one filled it, one failed to fill it
\* with another value, and one then got the first value.
C14_Witness ==
  /\ track /\ init0 = NULL /\ Len(log) = 3 /\ OncePerThread
  /\ log[1].op = "set_if_none" /\ log[1].ok
  /\ log[2].op = "set_if_none" /\ ~log[2].ok /\ log[2].new # log[1].new
  /\ log[3].op = "get" /\ log[3].raw = log[1].new
  /\ inner = log[1].new

\* C15: get and dup of AtomSetOnce leave the resident in the slot; get tears
\* nothing down and changes no reference count, dup on an Arc hands out one
\* more handle and adds one to the count; every handle is accounted for by
\* the count, and a value is torn down exactly once, when no handle to it is
\* left: for the resident, after the view was destroyed and every handle
\* handed out by dup was dropped.
C15_ReadersKeepOwnership ==
  [][/\ \A t \in Threads :
          /\ (last'.op = "get" /\ Get(t)) =>
               /\ inner' = inner /\ last'.raw = inner
               /\ rc' = rc /\ torn' = torn /\ held' = held
          /\ (last'.op = "dup" /\ Dup(t)) =>
               /\ inner' = inner /\ last'.ret = inner
               /\ torn' = torn
               /\ rc' = Plus(rc, inner)
               /\ held' = Plus(held, inner)
     /\ \A a \in allocd' :
          /\ rc'[a] = held'[a] + One(inner' = a)
          /\ torn'[a] = One(rc'[a] = 0)
          /\ (track' /\ Filled' /\ a = FirstId') =>
               (torn'[a] = 1 <=> (life' = "dropped" /\ held'[a] = 0))]_vars

\* A dup handed out a second handle to the resident Arc, the view was
\* destroyed while that handle was alive, and the value was torn down once
\* when the handle was dropped.
C15_Witness ==
  /\ track /\ kind = "Arc" /\ life = "dropped" /\ init0 = NULL
  /\ Len(log) = 3
  /\ log[1].op = "set_if_none" /\ log[1].ok
  /\ log[2].op = "get" /\ log[2].raw = log[1].new
  /\ log[3].op = "dup" /\ log[3].ret = log[1].new
  /\ held[log[1].new] = 0 /\ rc[log[1].new] = 0 /\ torn[log[1].new] = 1

\* A step of one of the operations built on a single atomic instruction.
OneShot(t, cur, new) ==
  \/ Swap(t, new)
  \/ Take(t)
  \/ SetIfNone(t, new)
  \/ AnyCas(t, cur, new)

OneShotOps == {"swap", "take", "set_if_none"} \cup CasOps

C17_LockFree ==
  /\ [][\A t \in Threads :
          /\ (pc[t] = "load" /\ pc'[t] = "cas") => pcur'[t] = inner'
          /\ (pc[t] = "cas" /\ pc'[t] = "load") => inner # pcur[t]
          /\ (pc[t] = "cas" /\ pc'[t] = "idle") => inner = pcur[t]
          /\ (pc[t] = "cas" /\ pc'[t] = "cas" /\ inner = pcur[t]
                /\ inner' # pcur[t]) =>
               /\ Len(log') = Len(log) + 1
               /\ log'[Len(log')].t # t]_vars
  /\ \A t \in Threads : (pc[t] # "idle") ~> (pc[t] = "idle")

\* A push has returned after its compare_exchange failed MaxTries times,
\* each time because another thread's call had changed the slot; those are
\* the other calls in the history.
C17_Witness ==
  /\ track /\ Len(log) = MaxCalls
  /\ \E t \in Threads :
       /\ tries[t] = MaxTries /\ pc[t] = "idle"
       /\ log[Len(log)].t = t /\ log[Len(log)].op = "replace_and_set_next"
       /\ \A i \in 1..(Len(log) - 1) : log[i].t # t

\* C18: when replace_and_set_next(v) is called with a v whose next field
\* holds w, then w and the chain below it are torn down, once each, in the
\* step before the loop, v is not, and v's next is empty when the loop
\* starts; no node is ever torn down twice, the chain in the slot never has
\* a node that was torn down, and destroying the Atom tears down the nodes
\* of the chain in the slot, once each.
C18_OldNextDropped ==
  [][/\ \A t \in Threads :
          (pc[t] = "idle" /\ pc'[t] = "load") =>
             LET v == rawv'[t]
             IN /\ \A w \in Range(Chain(next[v], next, NObj)) :
                     w # NULL /\ torn[w] = 0 /\ torn'[w] = 1
                /\ torn'[v] = 0 /\ next'[v] = NULL
     /\ \A a \in Addr : torn'[a] <= 1
     /\ \A a \in Range(Chain(inner', next', NObj)) : a # NULL /\ torn'[a] = 0
     /\ (kind = "Box" /\ life = "live" /\ life' = "dropped") =>
          \A a \in Range(Chain(inner, next, NObj)) : torn'[a] = 1]_vars

\* The scenario of lifo_drop with a chain of two below v: v was pushed with
\* w in its next field and x in w's, w and x were torn down, and v was torn
\* down when the Atom was destroyed.
C18_Witness ==
  /\ kind = "Box" /\ life = "dropped" /\ init0 = NULL
  /\ last.op = "replace_and_set_next" /\ last.first
  /\ allocd = Addr
  /\ \A a \in Addr : torn[a] = 1 /\ held[a] = 0

\* The nodes that calls of replace_and_set_next in their loop own as `raw`.
\* The next field of such a node is a copy of the pointer the loop loaded
\* and owns nothing until the exchange succeeds.
InFlight == {rawv[t] : t \in Running}

\* The owners of address a: handles of the callers, the slot, a running
\* replace_and_set_next, and next fields of nodes that are alive.
Holders(a) ==
  held[a] + One(inner = a) + One(a \in InFlight)
    + Cardinality({b \in allocd \ InFlight : torn[b] = 0 /\ next[b] = a})

\* C19: in every state reachable by any interleaving of the operations from
\* several threads, every value that is alive has exactly as many owners as
\* its count says, which is one for a Box: the slot, or one caller that
\* received it or never gave it, or one node's next field; no Box is handed
\* to two callers or both resident and in a caller's hands, and a value that
\* was torn down has no owner.
C19_OneOwner ==
  \A a \in allocd :
    /\ Holders(a) = rc[a]
    /\ torn[a] = 0 <=> rc[a] > 0
    /\ kind = "Box" => (rc[a] <= 1 /\ held[a] + One(inner = a) <= 1)

\* A Box went into the slot by a swap that displaced another Box, while a
\* replace_and_set_next had loaded the displaced one: the caller holds the
\* displaced Box and the slot the new one.
C19_Witness ==
  /\ kind = "Box" /\ life = "live"
  /\ last.op = "swap"
  /\ last.ret # NULL /\ held[last.ret] = 1 /\ last.ret # inner
  /\ inner = last.new /\ held[inner] = 0
  /\ rc[inner] = 1 /\ rc[last.ret] = 1
  /\ \E t \in Threads : pc[t] = "cas" /\ pcur[t] = last.ret

\* C20: an iteration of the loop of replace_and_set_next tears nothing down,
\* neither when it overwrites the node's next field nor when its
\* compare_exchange fails; a value is torn down once at most, in a step that
\* takes its last owner away (for a value withdrawn by take: when the thread
\* that withdrew it drops it); and when a push returns, the node's next
\* field is the resident it replaced, which is alive and in no caller's
\* hands.
C20_RetryDropsNothing ==
  [][/\ \A t \in Threads :
          /\ (pc[t] = "load" /\ pc'[t] = "cas") =>
               /\ rc' = rc /\ torn' = torn /\ held' = held
               /\ next'[rawv[t]] = inner
          /\ (pc[t] = "cas" /\ pc'[t] = "load") =>
               /\ rc' = rc /\ torn' = torn /\ held' = held
               /\ next' = next /\ inner' = inner
          /\ (pc[t] = "cas" /\ pc'[t] = "idle") =>
               LET v == rawv[t]
               IN /\ inner' = v /\ next'[v] = inner
                  /\ rc' = rc /\ torn' = torn /\ held' = held
                  /\ inner # NULL => (torn'[inner] = 0 /\ held'[inner] = 0)
     /\ \A a \in allocd :
          /\ torn'[a] <= 1
          /\ torn'[a] # torn[a] =>
               (Holders(a) = 1 /\ Holders(a)' = 0 /\ inner' # a)]_vars

\* A push went round its loop twice while another thread pushed a node and
\* a third took it: its second iteration had read that node when the take
\* withdrew it.  The push then went onto the empty slot, and the node was
\* torn down once, by its taker.
C20_Witness ==
  /\ track /\ life = "live" /\ init0 = NULL /\ Len(log) = 3
  /\ OncePerThread
  /\ log[1].op = "replace_and_set_next"
  /\ log[2].op = "take" /\ log[2].ret = log[1].new
  /\ log[3].op = "replace_and_set_next" /\ log[3].first
  /\ tries[log[3].t] = 2
  /\ inner = log[3].new /\ next[inner] = NULL
  /\ torn[log[1].new] = 1 /\ held[log[1].new] = 0

\* The runs C21 and C22 are about: replace_and_set_next and take on an Atom
\* built empty and still alive.
PushesAndTakes ==
  /\ track /\ life = "live" /\ init0 = NULL
  /\ \A i \in LogIdx : log[i].op \in {"replace_and_set_next", "take"}

Pushed ==
  {log[i].new : i \in {j \in LogIdx : log[j].op = "replace_and_set_next"}}

\* The places a chain can be: the slot (0) and the result of each take.
Places == {0} \cup {i \in LogIdx : log[i].op = "take"}

ChainAt(p) == Chain(IF p = 0 THEN inner ELSE log[p].ret, next, NObj)

\* The callers have left the chains as they got them: nothing was torn
\* down, no node a take returned was pushed again, every chain a take
\* returned is still in its caller's hands, and so is every node that was
\* not pushed.
Untouched ==
  /\ torn = Zero
  /\ \A i \in LogIdx, j \in LogIdx :
       (i # j /\ log[i].op = "replace_and_set_next"
              /\ log[j].op = "replace_and_set_next") => log[i].new # log[j].new
  /\ \A i \in LogIdx :
       (log[i].op = "take" /\ log[i].ret # NULL) => held[log[i].ret] = 1
  /\ \A a \in allocd \ Pushed : held[a] = 1

\* C21: when threads run replace_and_set_next and take concurrently on an
\* initially empty Atom, each push with a node of its own, then after all
\* calls have returned every pushed node is in exactly one place, once: in the chain one take returned or in
\* the chain in the slot; the chains end and hold pushed nodes only.
C21_NodesConserved ==
  (PushesAndTakes /\ Running = {} /\ Untouched) =>
    /\ \A p \in Places :
         NULL \notin Range(ChainAt(p)) /\ Range(ChainAt(p)) \subseteq Pushed
    /\ \A a \in Pushed :
         Cardinality({pi \in Places \X (1..NObj) :
                        /\ pi[2] <= Len(ChainAt(pi[1]))
                        /\ ChainAt(pi[1])[pi[2]] = a}) = 1

\* A push went round its loop again while another push and a take went by:
\* the node pushed first is in the taker's hands and the other in the slot.
C21_Witness ==
  /\ PushesAndTakes /\ Running = {} /\ Untouched
  /\ Len(log) = 3 /\ OncePerThread
  /\ log[1].op = "replace_and_set_next"
  /\ log[2].op = "take" /\ ChainAt(2) = <<log[1].new>>
  /\ log[3].op = "replace_and_set_next" /\ tries[log[3].t] > 0
  /\ ChainAt(0) = <<log[3].new>>

\* The pushes that returned true, and the takes that returned a chain.
Leaders == {i \in LogIdx : log[i].op = "replace_and_set_next" /\ log[i].first}
Drains == {i \in LogIdx : log[i].op = "take" /\ log[i].ret # NULL}

\* C22: when only replace_and_set_next and take run on an initially empty
\* Atom, in any interleaving, the number of pushes that returned true is the
\* number of takes that returned a chain, plus one if the slot is not empty;
\* this holds whenever calls have returned, and so after all of them have.
C22_LeaderAccounting ==
  PushesAndTakes =>
    Cardinality(Leaders) = Cardinality(Drains) + One(inner # NULL)

\* All calls have returned: two pushes returned true, one before and one
\* after a take that returned the first one's node, and the slot holds the
\* second one's node.
C22_Witness ==
  /\ PushesAndTakes /\ Running = {} /\ Len(log) = MaxCalls
  /\ Cardinality(Leaders) = 2 /\ Cardinality(Drains) = 1
  /\ inner # NULL

====
